---- MODULE Spec2Model ----
(***************************************************************************)
(* A model of the ingestion / chunking / retrieval code:                   *)
(*   src/src/vectorstore/vectorstore.py           VectorStore               *)
(*   src/src/document_ingestion/document_processor.py  DocumentProcessor    *)
(*   src/src/video/video_processor.py             VideoProcessor            *)
(*                                                                         *)
(* Python strings are sequences of one-character strings, so that          *)
(* str.split, str.strip, str.startswith, Path.suffix and re.search are     *)
(* computed character by character.                                       *)
(***************************************************************************)
EXTENDS Integers, Sequences, FiniteSets, TLC

VARIABLES
    namespace,    \* VectorStore.namespace
    vectorstore,  \* VectorStore.vectorstore: the namespace the backend handle is bound to
    retriever,    \* VectorStore.retriever: None, or the namespace its handle is bound to
    index,        \* the backend index: the set of stored records
    upserts,      \* number of backend add_documents calls made so far
    inst,         \* the processor instance under construction / in use
    call          \* the last call made: its name, its arguments and its outcome

vars == <<namespace, vectorstore, retriever, index, upserts, inst, call>>

None == "None"
NoInstance == [class |-> "None"]

\* ------------------------------------------------------------------ strings

NL == "\n"
SP == " "
Whitespace == {SP, NL, "\t"}
Digits == {"0", "1", "2", "3", "4", "5", "6", "7", "8", "9"}

\* s[i..] starts with p
IsPrefixAt(p, s, i) ==
    /\ i >= 1
    /\ i + Len(p) - 1 <= Len(s)
    /\ \A k \in 1..Len(p) : s[i + k - 1] = p[k]

\* str.startswith
StartsWith(s, p) == IsPrefixAt(p, s, 1)

\* `p in s`
Contains(s, p) == \E i \in 1..(Len(s) + 1) : IsPrefixAt(p, s, i)

\* str.find: the least index where p occurs in s, 0 when it does not
Find(s, p) ==
    IF Contains(s, p)
    THEN CHOOSE i \in 1..(Len(s) + 1) :
            /\ IsPrefixAt(p, s, i)
            /\ \A j \in 1..(i - 1) : ~IsPrefixAt(p, s, j)
    ELSE 0

Drop(s, n) == SubSeq(s, n + 1, Len(s))
Take(s, n) == SubSeq(s, 1, n)

\* str.split(sep), sep non-empty: the parts between the occurrences of sep,
\* scanned left to right
RECURSIVE StrSplit(_, _)
StrSplit(s, sep) ==
    LET i == Find(s, sep)
    IN  IF i = 0
        THEN <<s>>
        ELSE <<Take(s, i - 1)>> \o StrSplit(Drop(s, i - 1 + Len(sep)), sep)

RECURSIVE LStrip(_)
LStrip(s) == IF s # <<>> /\ Head(s) \in Whitespace THEN LStrip(Tail(s)) ELSE s

RECURSIVE RStrip(_)
RStrip(s) ==
    IF s # <<>> /\ s[Len(s)] \in Whitespace THEN RStrip(Take(s, Len(s) - 1)) ELSE s

\* str.strip()
Strip(s) == RStrip(LStrip(s))

Last(seq) == seq[Len(seq)]

RECURSIVE Flatten(_)
Flatten(ss) == IF ss = <<>> THEN <<>> ELSE Head(ss) \o Flatten(Tail(ss))

\* all sequences over S of length 0..n
SeqsUpTo(S, n) == UNION {[1..k -> S] : k \in 0..n}

\* ------------------------------------------------- VideoProcessor.extract_video_id

WatchMarker == <<"w", "a", "t", "c", "h", "?", "v", "=">>
ShortMarker == <<"y", "o", "u", "t", "u", ".", "b", "e", "/">>

\* a plausible slip: the short form tested first
extract_video_id_ShortFirst(url) ==
    IF Contains(url, ShortMarker)
    THEN [ok |-> TRUE, id |-> Strip(Head(StrSplit(Last(StrSplit(url, ShortMarker)), <<"?">>)))]
    ELSE IF Contains(url, WatchMarker)
    THEN [ok |-> TRUE, id |-> Strip(Head(StrSplit(Last(StrSplit(url, WatchMarker)), <<"&">>)))]
    ELSE [ok |-> FALSE, err |-> "ValueError: Invalid YouTube link"]

extract_video_id(url) ==
    IF Contains(url, WatchMarker)
    THEN [ok |-> TRUE, id |-> Strip(Head(StrSplit(Last(StrSplit(url, WatchMarker)), <<"&">>)))]
    ELSE IF Contains(url, ShortMarker)
    THEN [ok |-> TRUE, id |-> Strip(Head(StrSplit(Last(StrSplit(url, ShortMarker)), <<"?">>)))]
    ELSE [ok |-> FALSE, err |-> "ValueError: Invalid YouTube link"]

\* the pieces URLs are assembled from
UrlSegments ==
    { WatchMarker, ShortMarker, <<"a", "b">>, <<"&">>, <<"?">>, <<SP>> }

MaxSegments == 3

Urls == {Flatten(ss) : ss \in SeqsUpTo(UrlSegments, MaxSegments)}

Idle == [op |-> "none"]

\* the caller is between two calls: the code is synchronous, one call at a time
Ready == call.op = "none"

\* the caller has read the outcome of its last call
Return ==
    /\ ~Ready
    /\ call' = Idle
    /\ UNCHANGED <<namespace, vectorstore, retriever, index, upserts, inst>>

InitOther ==
    /\ namespace = None
    /\ vectorstore = None
    /\ retriever = None
    /\ index = {}
    /\ upserts = 0
    /\ inst = NoInstance

InitExtract ==
    /\ InitOther
    /\ call = Idle

ExtractVideoId ==
    /\ Ready
    /\ \E url \in Urls :
         call' = [op |-> "extract_video_id", url |-> url, res |-> extract_video_id(url)]
    /\ UNCHANGED <<namespace, vectorstore, retriever, index, upserts, inst>>

NextExtract == ExtractVideoId \/ Return

SpecExtract == InitExtract /\ [][NextExtract]_vars

\* ------------------------------------------------------------- VectorStore

Namespaces == {"a", "b"}
Chunks == {"c1", "c2"}
Queries == {"q1", "q2"}

MaxStored == 5     \* records the backend index holds at most
MaxBatch == 2      \* documents passed to one add_documents call
MaxK == 2          \* largest k passed to retrieve
MaxUpserts == 3    \* backend add_documents calls made at most

\* VectorStoreRetriever's number of results when as_retriever() is given no
\* search_kwargs, as at vectorstore.py:51, 56 and 73
RetrieverK == 4

Min(x, y) == IF x <= y THEN x ELSE y

\* PineconeVectorStore.add_documents on a handle bound to namespace ns: one new
\* record per document, stored under ns
BackendUpsert(idx, ns, documents) ==
    idx \cup { [id |-> Cardinality(idx) + i, chunk |-> documents[i], ns |-> ns] :
                 i \in 1..Len(documents) }

\* injective sequences of length n over S
Arrangements(S, n) ==
    {f \in [1..n -> S] : \A i, j \in 1..n : i # j => f[i] # f[j]}

\* retriever.invoke(query) on a handle bound to namespace ns: the RetrieverK
\* records of ns nearest to the query, nearest first. The ranking is the
\* embedding model's, so any order is possible.
BackendQuery(idx, ns, query) ==
    LET stored == {r \in idx : r.ns = ns}
    IN  Arrangements(stored, Min(RetrieverK, Cardinality(stored)))

InitVS ==
    /\ namespace \in Namespaces
    /\ vectorstore = namespace
    /\ retriever = None
    /\ index \in {{}} \cup {{[id |-> 1, chunk |-> c, ns |-> n]} : c \in Chunks, n \in Namespaces}
    /\ upserts = 0
    /\ inst = NoInstance
    /\ call = Idle

\* a plausible slip: the empty-input guard left out
add_documents_NoGuard(documents) ==
    /\ Cardinality(index) + Len(documents) <= MaxStored
    /\ upserts < MaxUpserts
    /\ \/ /\ index' = BackendUpsert(index, vectorstore, documents)
          /\ upserts' = upserts + 1
          /\ retriever' = vectorstore
          /\ call' = [op |-> "add_documents", documents |-> documents, err |-> "none"]
       \/ /\ upserts' = upserts + 1
          /\ call' = [op |-> "add_documents", documents |-> documents, err |-> "BackendError"]
          /\ UNCHANGED <<index, retriever>>
    /\ UNCHANGED <<namespace, vectorstore, inst>>

add_documents(documents) ==
    /\ Cardinality(index) + Len(documents) <= MaxStored
    /\ upserts < MaxUpserts
    /\ \/ /\ documents = <<>>
          /\ call' = [op |-> "add_documents", documents |-> documents,
                      err |-> "ValueError: No documents provided to add to vector store."]
          /\ UNCHANGED <<index, upserts, retriever>>
       \/ /\ documents # <<>>
          /\ index' = BackendUpsert(index, vectorstore, documents)
          /\ upserts' = upserts + 1
          /\ retriever' = vectorstore
          /\ call' = [op |-> "add_documents", documents |-> documents, err |-> "none"]
       \/ /\ documents # <<>>
          /\ upserts' = upserts + 1
          /\ call' = [op |-> "add_documents", documents |-> documents, err |-> "BackendError"]
          /\ UNCHANGED <<index, retriever>>
    /\ UNCHANGED <<namespace, vectorstore, inst>>

\* the retriever get_retriever returns, and caches
RetrieverOrNew == IF retriever = None THEN vectorstore ELSE retriever

get_retriever ==
    /\ retriever' = RetrieverOrNew
    /\ call' = [op |-> "get_retriever", out |-> RetrieverOrNew]
    /\ UNCHANGED <<namespace, vectorstore, index, upserts, inst>>

retrieve(query, k) ==
    /\ retriever' = RetrieverOrNew
    /\ \/ \E out \in BackendQuery(index, RetrieverOrNew, query) :
             call' = [op |-> "retrieve", query |-> query, k |-> k, ns |-> namespace,
                      err |-> "none", out |-> out]
       \/ call' = [op |-> "retrieve", query |-> query, k |-> k, ns |-> namespace,
                   err |-> "BackendError", out |-> <<>>]
    /\ UNCHANGED <<namespace, vectorstore, index, upserts, inst>>

\* a plausible slip: the cached retriever kept across the switch
switch_namespace_KeepRetriever(ns) ==
    /\ namespace' = ns
    /\ vectorstore' = ns
    /\ call' = [op |-> "switch_namespace", ns |-> ns]
    /\ UNCHANGED <<retriever, index, upserts, inst>>

switch_namespace(ns) ==
    /\ namespace' = ns
    /\ vectorstore' = ns
    /\ retriever' = ns
    /\ call' = [op |-> "switch_namespace", ns |-> ns]
    /\ UNCHANGED <<index, upserts, inst>>

AddDocuments == Ready /\ \E documents \in SeqsUpTo(Chunks, MaxBatch) : add_documents(documents)
GetRetriever == Ready /\ get_retriever
Retrieve == Ready /\ \E query \in Queries, k \in 1..MaxK : retrieve(query, k)
SwitchNamespace == Ready /\ \E ns \in Namespaces : switch_namespace(ns)

NextVS == AddDocuments \/ GetRetriever \/ Retrieve \/ SwitchNamespace \/ Return

SpecVS == InitVS /\ [][NextVS]_vars

\* ---------------------------------- RecursiveCharacterTextSplitter (library)
\* The splitter both processors construct (document_processor.py:27-30,
\* video_processor.py:16-19) with the library's defaults: separators
\* "\n\n", "\n", " ", "", keep_separator=True, strip_whitespace=True,
\* length_function=len.

Separators == << <<NL, NL>>, <<NL>>, <<SP>>, <<>> >>

\* TextSplitter.__init__: the parameter check made when a splitter is built
SplitterInitError(chunk_size, chunk_overlap) ==
    IF chunk_size <= 0 THEN "ValueError: chunk_size must be > 0"
    ELSE IF chunk_overlap < 0 THEN "ValueError: chunk_overlap must be >= 0"
    ELSE IF chunk_overlap > chunk_size THEN "ValueError: Got a larger chunk overlap than chunk size"
    ELSE "none"

NonEmpty(s) == s # <<>>

\* _split_text_with_regex(text, separator, keep_separator=True): the pieces of
\* text, each separator kept at the start of the piece that follows it
SplitKeepingSeparator(text, separator) ==
    LET pieces ==
          IF separator = <<>>
          THEN [i \in 1..Len(text) |-> <<text[i]>>]
          ELSE LET parts == StrSplit(text, separator)
               IN  [i \in 1..Len(parts) |->
                      IF i = 1 THEN parts[1] ELSE separator \o parts[i]]
    IN  SelectSeq(pieces, NonEmpty)

\* _join_docs with separator "": the pieces joined and stripped, nothing when
\* the result is empty
JoinDocs(current_doc) ==
    LET text == Strip(Flatten(current_doc))
    IN  IF text = <<>> THEN <<>> ELSE <<text>>

\* the while loop of _merge_splits that drops pieces from the front of the
\* window until the overlap fits and the next piece (of length len) fits
RECURSIVE DropFront(_, _, _, _, _)
DropFront(current_doc, total, len, chunk_size, chunk_overlap) ==
    IF total > chunk_overlap \/ (total + len > chunk_size /\ total > 0)
    THEN DropFront(Tail(current_doc), total - Len(Head(current_doc)), len,
                   chunk_size, chunk_overlap)
    ELSE [current_doc |-> current_doc, total |-> total]

\* _merge_splits(splits, separator "")
RECURSIVE MergeSplits(_, _, _, _, _, _)
MergeSplits(splits, docs, current_doc, total, chunk_size, chunk_overlap) ==
    IF splits = <<>>
    THEN docs \o JoinDocs(current_doc)
    ELSE LET d == Head(splits)
             len == Len(d)
         IN  IF total + len > chunk_size /\ current_doc # <<>>
             THEN LET kept == DropFront(current_doc, total, len, chunk_size, chunk_overlap)
                  IN  MergeSplits(Tail(splits), docs \o JoinDocs(current_doc),
                                  kept.current_doc \o <<d>>, kept.total + len,
                                  chunk_size, chunk_overlap)
             ELSE MergeSplits(Tail(splits), docs, current_doc \o <<d>>, total + len,
                              chunk_size, chunk_overlap)

Merged(good_splits, chunk_size, chunk_overlap) ==
    IF good_splits = <<>> THEN <<>>
    ELSE MergeSplits(good_splits, <<>>, <<>>, 0, chunk_size, chunk_overlap)

\* the first separator of the list that is "" or occurs in text; the last one
\* when none does
PickSeparator(text, separators) ==
    LET hits == {i \in 1..Len(separators) :
                    separators[i] = <<>> \/ Contains(text, separators[i])}
    IN  IF hits = {} THEN [separator |-> Last(separators), rest |-> <<>>]
        ELSE LET i == CHOOSE h \in hits : \A g \in hits : h <= g
             IN  [separator |-> separators[i],
                  rest |-> IF separators[i] = <<>> THEN <<>>
                           ELSE SubSeq(separators, i + 1, Len(separators))]

\* RecursiveCharacterTextSplitter._split_text, and its loop over the pieces
RECURSIVE SplitText(_, _, _, _)
RECURSIVE SplitLoop(_, _, _, _, _, _)
SplitLoop(splits, good_splits, final_chunks, new_separators, chunk_size, chunk_overlap) ==
    IF splits = <<>>
    THEN final_chunks \o Merged(good_splits, chunk_size, chunk_overlap)
    ELSE LET s == Head(splits)
         IN  IF Len(s) < chunk_size
             THEN SplitLoop(Tail(splits), good_splits \o <<s>>, final_chunks,
                            new_separators, chunk_size, chunk_overlap)
             ELSE LET flushed == final_chunks \o Merged(good_splits, chunk_size, chunk_overlap)
                      pieces == IF new_separators = <<>> THEN <<s>>
                                ELSE SplitText(s, new_separators, chunk_size, chunk_overlap)
                  IN  SplitLoop(Tail(splits), <<>>, flushed \o pieces,
                                new_separators, chunk_size, chunk_overlap)

SplitText(text, separators, chunk_size, chunk_overlap) ==
    LET pick == PickSeparator(text, separators)
    IN  SplitLoop(SplitKeepingSeparator(text, pick.separator), <<>>, <<>>,
                  pick.rest, chunk_size, chunk_overlap)

\* TextSplitter.split_documents / create_documents: every document split on
\* its own, each chunk given a copy of its document's metadata
RECURSIVE CreateDocuments(_, _, _)
CreateDocuments(documents, chunk_size, chunk_overlap) ==
    IF documents = <<>> THEN <<>>
    ELSE LET doc == Head(documents)
             texts == SplitText(doc.page_content, Separators, chunk_size, chunk_overlap)
         IN  [i \in 1..Len(texts) |-> [page_content |-> texts[i], metadata |-> doc.metadata]]
             \o CreateDocuments(Tail(documents), chunk_size, chunk_overlap)


\* ------------------------------------------------------------- documents

NoKey == "<no key>"
NoTimestamp == [set |-> FALSE, int |-> 0, frac |-> <<>>]

\* Document.metadata: the keys the code reads or writes; `source` is <<>> and
\* the others NoKey / NoTimestamp while the key is absent. `page` stands for
\* the keys the external parser sets on its own.
Metadata(source, file_type, type, page) ==
    [source |-> source, file_type |-> file_type, type |-> type, page |-> page,
     timestamp_start |-> NoTimestamp]

Document(page_content, metadata) == [page_content |-> page_content, metadata |-> metadata]

\* d.metadata.setdefault("source", value)
SetDefaultSource(doc, value) ==
    IF doc.metadata.source = <<>>
    THEN [doc EXCEPT !.metadata.source = value]
    ELSE doc

\* d.metadata["file_type"] = value
SetFileType(doc, value) == [doc EXCEPT !.metadata.file_type = value]

\* ----------------------------------------------------- paths and sources

Upper == <<"A", "B", "C", "D", "F", "P", "T", "X">>
Lower == <<"a", "b", "c", "d", "f", "p", "t", "x">>

LowerChar(c) ==
    IF \E i \in 1..Len(Upper) : Upper[i] = c
    THEN Lower[CHOOSE i \in 1..Len(Upper) : Upper[i] = c]
    ELSE c

\* str.lower()
StrLower(s) == [i \in 1..Len(s) |-> LowerChar(s[i])]

RECURSIVE JoinWith(_, _)
JoinWith(parts, sep) ==
    IF parts = <<>> THEN <<>>
    ELSE IF Len(parts) = 1 THEN parts[1]
    ELSE parts[1] \o sep \o JoinWith(Tail(parts), sep)

IsPathPart(part) == part # <<>> /\ part # <<".">>

\* the parts of Path(src_str): empty and "." components are dropped
PathParts(src_str) == SelectSeq(StrSplit(src_str, <<"/">>), IsPathPart)

\* str(Path(src_str)) of a relative path
PathStr(src_str) ==
    IF PathParts(src_str) = <<>> THEN <<".">> ELSE JoinWith(PathParts(src_str), <<"/">>)

\* Path(src_str).suffix: the last component from its last dot on, when that
\* dot is neither its first nor its last character
PathSuffix(src_str) ==
    IF PathParts(src_str) = <<>> THEN <<>>
    ELSE LET name == Last(PathParts(src_str))
             dots == {i \in 1..Len(name) : name[i] = "."}
         IN  IF dots = {} THEN <<>>
             ELSE LET i == CHOOSE d \in dots : \A e \in dots : e <= d
                  IN  IF 1 < i /\ i < Len(name) THEN Drop(name, i - 1) ELSE <<>>

HttpPrefix == <<"h", "t", "t", "p", ":", "/", "/">>
HttpsPrefix == <<"h", "t", "t", "p", "s", ":", "/", "/">>

IsUrl(src_str) == StartsWith(src_str, HttpPrefix) \/ StartsWith(src_str, HttpsPrefix)

\* extension_loaders: suffix -> loader
extension_loaders ==
    { << <<".", "p", "d", "f">>, "load_from_pdf" >>,
      << <<".", "t", "x", "t">>, "load_from_txt" >>,
      << <<".", "d", "o", "c", "x">>, "load_from_docx" >>,
      << <<".", "d", "o", "c">>, "load_from_docx" >>,
      << <<".", "c", "s", "v">>, "load_from_csv" >>,
      << <<".", "j", "s", "o", "n">>, "load_from_json" >>,
      << <<".", "m", "d">>, "load_from_markdown" >>,
      << <<".", "m", "a", "r", "k", "d", "o", "w", "n">>, "load_from_markdown" >>,
      << <<".", "h", "t", "m", "l">>, "load_from_html" >>,
      << <<".", "h", "t", "m">>, "load_from_html" >>,
      << <<".", "p", "y">>, "load_from_python" >> }

HasLoader(suffix) == \E e \in extension_loaders : e[1] = suffix
LoaderOf(suffix) == (CHOOSE e \in extension_loaders : e[1] = suffix)[2]

\* ------------------------------------------------------- DocumentProcessor

\* what the external parser or fetcher does for one source: it raises, or it
\* yields these documents
Raises == [raises |-> TRUE, docs |-> <<>>]
Yields(docs) == [raises |-> FALSE, docs |-> docs]

PageA == <<"a", "a", SP, "a">>
PageB == <<"b", NL, NL, "b", "b">>
ParserSource == <<"p", "s">>

ParserOutcomes ==
    { Raises,
      Yields(<< Document(PageA, Metadata(<<>>, NoKey, NoKey, "0")) >>),
      Yields(<< Document(PageA, Metadata(ParserSource, NoKey, NoKey, "0")),
                Document(PageB, Metadata(ParserSource, NoKey, NoKey, "1")) >>) }

\* WebBaseLoader(url).load(): the fetcher names the url as the source
load_from_url(url, parsed) ==
    [i \in 1..Len(parsed) |-> SetDefaultSource(parsed[i], url)]

load_from_pdf(file_path, parsed) ==
    [i \in 1..Len(parsed) |-> SetDefaultSource(parsed[i], PathStr(file_path))]

load_from_txt(file_path, parsed) ==
    [i \in 1..Len(parsed) |-> SetDefaultSource(parsed[i], PathStr(file_path))]

\* the loaders that also set file_type
load_tagged(file_path, parsed, tag) ==
    [i \in 1..Len(parsed) |->
        SetFileType(SetDefaultSource(parsed[i], PathStr(file_path)), tag)]

\* load_from_json: the parsed items (already rendered by json.dumps) of a list
\* joined by a blank line into one document
load_from_json(file_path, parsed) ==
    LET items == [i \in 1..Len(parsed) |-> parsed[i].page_content]
    IN  << Document(JoinWith(items, <<NL, NL>>),
                    Metadata(PathStr(file_path), "json", NoKey, NoKey)) >>

LoaderTags ==
    { <<"load_from_docx", "docx">>, <<"load_from_csv", "csv">>,
      <<"load_from_markdown", "markdown">>, <<"load_from_html", "html">>,
      <<"load_from_python", "python">> }

\* extension_loaders[suffix](path)
CallLoader(loader, file_path, parsed) ==
    IF loader = "load_from_pdf" THEN load_from_pdf(file_path, parsed)
    ELSE IF loader = "load_from_txt" THEN load_from_txt(file_path, parsed)
    ELSE IF loader = "load_from_json" THEN load_from_json(file_path, parsed)
    ELSE load_tagged(file_path, parsed, (CHOOSE t \in LoaderTags : t[1] = loader)[2])

UnsupportedError(src_str) == [kind |-> "ValueError: Unsupported source type", source |-> src_str]
LoadError(src_str) == [kind |-> "LoadError", source |-> src_str]
NoError == [kind |-> "none", source |-> <<>>]

\* the state of load_documents' loop: docs gathered, loaders called so far
LoadState(docs, invoked) ==
    [returned |-> FALSE, err |-> NoError, result |-> <<>>, docs |-> docs, invoked |-> invoked]

\* a plausible slip: a failing source is skipped and the rest is returned
RECURSIVE load_documents_Skip(_, _, _)
load_documents_Skip(sources, outcomes, st) ==
    IF sources = <<>>
    THEN [st EXCEPT !.returned = TRUE, !.result = st.docs]
    ELSE LET src_str == Head(sources)
             parsed == Head(outcomes)
         IN  IF IsUrl(src_str)
             THEN load_documents_Skip(Tail(sources), Tail(outcomes),
                      LoadState(IF parsed.raises THEN st.docs
                                ELSE st.docs \o load_from_url(src_str, parsed.docs),
                                st.invoked \o << <<"load_from_url", src_str>> >>))
             ELSE IF HasLoader(StrLower(PathSuffix(src_str)))
             THEN load_documents_Skip(Tail(sources), Tail(outcomes),
                      LoadState(IF parsed.raises THEN st.docs
                                ELSE st.docs \o CallLoader(LoaderOf(StrLower(PathSuffix(src_str))),
                                                           src_str, parsed.docs),
                                st.invoked \o << <<LoaderOf(StrLower(PathSuffix(src_str))), src_str>> >>))
             ELSE load_documents_Skip(Tail(sources), Tail(outcomes), st)

\* load_documents: the loop over the sources, in order; outcomes[i] is what the
\* parser does if it is called for sources[i]
RECURSIVE load_documents(_, _, _)
load_documents(sources, outcomes, st) ==
    IF sources = <<>>
    THEN [st EXCEPT !.returned = TRUE, !.result = st.docs]
    ELSE LET src_str == Head(sources)
             parsed == Head(outcomes)
             suffix == StrLower(PathSuffix(src_str))
         IN  IF IsUrl(src_str)
             THEN LET invoked == st.invoked \o << <<"load_from_url", src_str>> >>
                  IN  IF parsed.raises
                      THEN [st EXCEPT !.err = LoadError(src_str), !.invoked = invoked]
                      ELSE load_documents(Tail(sources), Tail(outcomes),
                               LoadState(st.docs \o load_from_url(src_str, parsed.docs), invoked))
             ELSE IF HasLoader(suffix)
             THEN LET invoked == st.invoked \o << <<LoaderOf(suffix), src_str>> >>
                  IN  IF parsed.raises
                      THEN [st EXCEPT !.err = LoadError(src_str), !.invoked = invoked]
                      ELSE load_documents(Tail(sources), Tail(outcomes),
                               LoadState(st.docs \o CallLoader(LoaderOf(suffix), src_str, parsed.docs),
                                         invoked))
             ELSE [st EXCEPT !.err = UnsupportedError(src_str)]

\* a plausible slip: the window widened by the overlap
split_documents_Wide(self, documents) ==
    CreateDocuments(documents, self.splitter.chunk_size + self.splitter.chunk_overlap,
                    self.splitter.chunk_overlap)

\* DocumentProcessor.split_documents
split_documents(self, documents) ==
    CreateDocuments(documents, self.splitter.chunk_size, self.splitter.chunk_overlap)

\* DocumentProcessor.__init__ / VideoProcessor.__init__ once the splitter was
\* built: the instance
Instance(class, chunk_size, chunk_overlap) ==
    [class |-> class, chunk_size |-> chunk_size, chunk_overlap |-> chunk_overlap,
     splitter |-> [chunk_size |-> chunk_size, chunk_overlap |-> chunk_overlap]]

\* ---------------------------------------------------------- VideoProcessor

DigitSeq == <<"0", "1", "2", "3", "4", "5", "6", "7", "8", "9">>

RECURSIVE NatToStr(_)
NatToStr(n) == IF n < 10 THEN <<DigitSeq[n + 1]>> ELSE NatToStr(n \div 10) \o <<DigitSeq[(n % 10) + 1]>>

DigitValue(c) == (CHOOSE i \in 1..10 : DigitSeq[i] = c) - 1

RECURSIVE StrToNat(_)
StrToNat(s) ==
    IF s = <<>> THEN 0 ELSE 10 * StrToNat(Take(s, Len(s) - 1)) + DigitValue(s[Len(s)])

\* f"{start:.1f}" of a start time given in quarters of a second: one decimal,
\* ties rounded to the even digit (0.25 -> 0.2, 0.75 -> 0.8)
FormatOneDecimal(quarters) ==
    NatToStr(quarters \div 4) \o <<".">> \o
        << CASE quarters % 4 = 0 -> "0"
             [] quarters % 4 = 1 -> "2"
             [] quarters % 4 = 2 -> "5"
             [] quarters % 4 = 3 -> "8" >>

RECURSIVE StripZeros(_)
StripZeros(s) == IF s # <<>> /\ s[Len(s)] = "0" THEN StripZeros(Take(s, Len(s) - 1)) ELSE s

\* float("<int>.<frac>"): the value, as its integer part and its decimals
Float(int, frac) == [set |-> TRUE, int |-> StrToNat(int), frac |-> StripZeros(frac)]

\* the number of digits of s from index i on
RECURSIVE DigitRun(_, _)
DigitRun(s, i) == IF i <= Len(s) /\ s[i] \in Digits THEN 1 + DigitRun(s, i + 1) ELSE 0

\* r"\[(\d+\.\d+)s\]" matches s at index i
MatchAt(s, i) ==
    LET n1 == DigitRun(s, i + 1)
        n2 == DigitRun(s, i + n1 + 2)
    IN  /\ i <= Len(s) /\ s[i] = "["
        /\ n1 >= 1
        /\ i + n1 + 1 <= Len(s) /\ s[i + n1 + 1] = "."
        /\ n2 >= 1
        /\ IsPrefixAt(<<"s", "]">>, s, i + n1 + n2 + 2)

\* float(match.group(1)) of the match at index i
GroupAt(s, i) ==
    LET n1 == DigitRun(s, i + 1)
        n2 == DigitRun(s, i + n1 + 2)
    IN  Float(SubSeq(s, i + 1, i + n1), SubSeq(s, i + n1 + 2, i + n1 + n2 + 1))

\* a plausible slip: only a marker at the start of the chunk is read (re.match)
Annotate_AtStart(ch) ==
    IF MatchAt(ch.page_content, 1)
    THEN [ch EXCEPT !.metadata.timestamp_start = GroupAt(ch.page_content, 1)]
    ELSE ch

\* a plausible slip: the chunk's metadata rebuilt with the timestamp only
Annotate_Rebuild(ch) ==
    LET hits == {i \in 1..Len(ch.page_content) : MatchAt(ch.page_content, i)}
    IN  IF hits = {} THEN ch
        ELSE [ch EXCEPT !.metadata =
                [Metadata(<<>>, NoKey, NoKey, NoKey) EXCEPT !.timestamp_start =
                    GroupAt(ch.page_content, CHOOSE i \in hits : \A j \in hits : i <= j)]]

\* the body of process_video's loop: re.search for the first marker, and
\* metadata["timestamp_start"] set from it
Annotate(ch) ==
    LET hits == {i \in 1..Len(ch.page_content) : MatchAt(ch.page_content, i)}
    IN  IF hits = {} THEN ch
        ELSE [ch EXCEPT !.metadata.timestamp_start =
                GroupAt(ch.page_content, CHOOSE i \in hits : \A j \in hits : i <= j)]

\* the line transcript_to_document renders for one entry
EntryLine(entry) ==
    <<"[">> \o FormatOneDecimal(entry.start) \o <<"s", "]", SP>> \o entry.text

transcript_to_document(transcript, url) ==
    Document(JoinWith([i \in 1..Len(transcript) |-> EntryLine(transcript[i])], <<NL>>),
             Metadata(url, NoKey, "youtube_transcript", NoKey))

\* VideoProcessor.chunk_document
chunk_document(self, doc) ==
    CreateDocuments(<<doc>>, self.splitter.chunk_size, self.splitter.chunk_overlap)

\* process_video once the transcript is fetched
process_video(self, transcript, url) ==
    LET chunks == chunk_document(self, transcript_to_document(transcript, url))
    IN  [i \in 1..Len(chunks) |-> Annotate(chunks[i])]


\* ------------------------------------------------- processors: the calls

MaxChunkSize == 3         \* small chunk sizes and overlaps tried: 0..MaxChunkSize
MidChunkSize == 12        \* a chunk size that holds one transcript line
LargeChunkSize == 24      \* a chunk size that holds two transcript lines
MaxTextLen == 5           \* longest text given to split_documents
MaxPipelineSources == 2   \* sources given to one process_sources call
MaxSources == 3           \* sources given to one load_documents call
MaxEntries == 2           \* entries of a fetched transcript

\* the defaults of DocumentProcessor.__init__
DefaultChunkSize == 500
DefaultChunkOverlap == 50

ChunkSizes == (0..MaxChunkSize) \cup {MidChunkSize, LargeChunkSize}
ChunkOverlaps == 0..MaxChunkSize

DocumentProcessorInit(chunk_size, chunk_overlap) ==
    LET err == SplitterInitError(chunk_size, chunk_overlap)
    IN  /\ inst' = IF err = "none"
                   THEN Instance("DocumentProcessor", chunk_size, chunk_overlap)
                   ELSE inst
        /\ call' = [op |-> "DocumentProcessor", chunk_size |-> chunk_size,
                    chunk_overlap |-> chunk_overlap, err |-> err]
        /\ UNCHANGED <<namespace, vectorstore, retriever, index, upserts>>

VideoProcessorInit(chunk_size, chunk_overlap) ==
    LET err == SplitterInitError(chunk_size, chunk_overlap)
    IN  /\ inst' = IF err = "none"
                   THEN Instance("VideoProcessor", chunk_size, chunk_overlap)
                   ELSE inst
        /\ call' = [op |-> "VideoProcessor", chunk_size |-> chunk_size,
                    chunk_overlap |-> chunk_overlap, err |-> err]
        /\ UNCHANGED <<namespace, vectorstore, retriever, index, upserts>>

NewDocumentProcessor ==
    Ready /\ \E chunk_size \in ChunkSizes, chunk_overlap \in ChunkOverlaps :
        DocumentProcessorInit(chunk_size, chunk_overlap)

NewVideoProcessor ==
    Ready /\ \E chunk_size \in ChunkSizes, chunk_overlap \in ChunkOverlaps :
        VideoProcessorInit(chunk_size, chunk_overlap)

TextAlphabet == {"a", SP, NL}
Texts == SeqsUpTo(TextAlphabet, MaxTextLen)
PlainMetadata == Metadata(<<"s">>, NoKey, NoKey, NoKey)

SplitDocuments ==
    /\ Ready
    /\ inst.class = "DocumentProcessor"
    /\ \E text \in Texts :
         LET documents == << Document(text, PlainMetadata) >>
         IN  call' = [op |-> "split_documents", documents |-> documents,
                      out |-> split_documents(inst, documents)]
    /\ UNCHANGED <<namespace, vectorstore, retriever, index, upserts, inst>>

ChunkDocument ==
    /\ Ready
    /\ inst.class = "VideoProcessor"
    /\ \E text \in Texts :
         LET doc == Document(text, PlainMetadata)
         IN  call' = [op |-> "chunk_document", documents |-> <<doc>>,
                      out |-> chunk_document(inst, doc)]
    /\ UNCHANGED <<namespace, vectorstore, retriever, index, upserts, inst>>

SourceUrl == HttpPrefix \o <<"u">>
SourcePdf == <<"a", ".", "p", "d", "f">>
SourceTxt == <<".", "/", "b", ".", "T", "X", "T">>
SourceJson == <<"c", ".", "j", "s", "o", "n">>
SourceDocx == <<"d", ".", "d", "o", "c", "x">>
SourceBad == <<"e", ".", "x", "y", "z">>

SourcePool == {SourceUrl, SourcePdf, SourceTxt, SourceJson, SourceDocx, SourceBad}

\* process_sources: load_documents, then split_documents on what it returned
ProcessSources ==
    /\ Ready
    /\ inst.class = "DocumentProcessor"
    /\ \E sources \in SeqsUpTo(SourcePool, MaxPipelineSources) :
         \E outcomes \in [1..Len(sources) -> ParserOutcomes] :
           LET st == load_documents(sources, outcomes, LoadState(<<>>, <<>>))
           IN  call' = [op |-> "process_sources", sources |-> sources,
                        outcomes |-> outcomes, err |-> st.err, units |-> st.result,
                        out |-> IF st.returned THEN split_documents(inst, st.result)
                                ELSE <<>>]
    /\ UNCHANGED <<namespace, vectorstore, retriever, index, upserts, inst>>

VideoUrls ==
    { WatchMarker \o <<"a", "b">>, ShortMarker \o <<"a", "b">>, <<"a", "b">> }

EntryTexts == { <<"h", "i">>, <<"a", NL, "b">> }
StartTimes == {0, 5, 10, 50}    \* quarters of a second: 0.0, 1.25, 2.5, 12.5

\* transcripts the provider may return: entries in playback order
Transcripts ==
    { t \in SeqsUpTo([text : EntryTexts, start : StartTimes], MaxEntries) :
        \A i \in 1..(Len(t) - 1) : t[i].start < t[i + 1].start }

\* process_video: load_transcript (extract_video_id, then the provider's
\* fetch), transcript_to_document, chunk_document and the annotation loop
ProcessVideo ==
    /\ Ready
    /\ inst.class = "VideoProcessor"
    /\ \E url \in VideoUrls :
         IF ~extract_video_id(url).ok
         THEN call' = [op |-> "process_video", url |-> url,
                       err |-> extract_video_id(url).err, units |-> <<>>, out |-> <<>>]
         ELSE \/ call' = [op |-> "process_video", url |-> url, err |-> "FetchError",
                          units |-> <<>>, out |-> <<>>]
              \/ \E transcript \in Transcripts :
                   call' = [op |-> "process_video", url |-> url, err |-> "none",
                            units |-> << transcript_to_document(transcript, url) >>,
                            out |-> process_video(inst, transcript, url)]
    /\ UNCHANGED <<namespace, vectorstore, retriever, index, upserts, inst>>

InitProc ==
    /\ InitOther
    /\ call = Idle

NextProc ==
    \/ NewDocumentProcessor
    \/ NewVideoProcessor
    \/ SplitDocuments
    \/ ChunkDocument
    \/ ProcessSources
    \/ ProcessVideo
    \/ Return

SpecProc == InitProc /\ [][NextProc]_vars

\* load_documents on a DocumentProcessor built with the default parameters
LoadDocuments ==
    /\ Ready
    /\ inst.class = "DocumentProcessor"
    /\ \E sources \in SeqsUpTo(SourcePool, MaxSources) :
         \E outcomes \in [1..Len(sources) -> ParserOutcomes] :
           LET st == load_documents(sources, outcomes, LoadState(<<>>, <<>>))
           IN  call' = [op |-> "load_documents", sources |-> sources,
                        outcomes |-> outcomes, err |-> st.err,
                        returned |-> st.returned, result |-> st.result,
                        invoked |-> st.invoked]
    /\ UNCHANGED <<namespace, vectorstore, retriever, index, upserts, inst>>

InitLoad ==
    /\ namespace = None
    /\ vectorstore = None
    /\ retriever = None
    /\ index = {}
    /\ upserts = 0
    /\ inst = Instance("DocumentProcessor", DefaultChunkSize, DefaultChunkOverlap)
    /\ call = Idle

NextLoad == LoadDocuments \/ Return

SpecLoad == InitLoad /\ [][NextLoad]_vars


\* =================================================================== claims

EmptyInputError == "ValueError: No documents provided to add to vector store."

C3_AtMostK ==
    (call.op = "retrieve" /\ call.err = "none") => Len(call.out) <= call.k

\* C10. add_documents with an empty sequence fails with the empty-input error,
\* makes no backend upsert, and leaves the namespace, the stored data and the
\* cached retriever as they were.
C10_EmptyUpsertRejected ==
    [][ (call'.op = "add_documents" /\ call'.documents = <<>>)
          => /\ call'.err = EmptyInputError
             /\ UNCHANGED <<namespace, vectorstore, retriever, index, upserts>> ]_vars

\* C10 witness: an empty add_documents was rejected on a store that holds data
\* and has a cached retriever.
C10_Witness ==
    /\ call.op = "add_documents"
    /\ call.documents = <<>>
    /\ call.err = EmptyInputError
    /\ index # {}
    /\ retriever # None

\* the greatest index where p occurs in s
LastOccurrence(s, p) ==
    CHOOSE i \in 1..(Len(s) + 1) :
        /\ IsPrefixAt(p, s, i)
        /\ \A j \in (i + 1)..(Len(s) + 1) : ~IsPrefixAt(p, s, j)

FirstOccurrence(s, p) ==
    CHOOSE i \in 1..(Len(s) + 1) :
        /\ IsPrefixAt(p, s, i)
        /\ \A j \in 1..(i - 1) : ~IsPrefixAt(p, s, j)

\* the text of s from index `from` up to the first character c, or to the end
UpTo(s, from, c) ==
    LET stops == {j \in from..Len(s) : s[j] = c}
        end == IF stops = {} THEN Len(s) + 1
               ELSE CHOOSE j \in stops : \A h \in stops : j <= h
    IN  SubSeq(s, from, end - 1)

\* r is raw without its leading and trailing whitespace
IsStripOf(r, raw) ==
    /\ r # <<>> => (r[1] \notin Whitespace /\ r[Len(r)] \notin Whitespace)
    /\ \E i \in 1..(Len(raw) + 1) :
          /\ i + Len(r) - 1 <= Len(raw)
          /\ r = SubSeq(raw, i, i + Len(r) - 1)
          /\ \A j \in 1..Len(raw) : (j < i \/ j > i + Len(r) - 1) => raw[j] \in Whitespace

\* C8 (as amended). A URL containing "watch?v=" gives the text after the last
\* "watch?v=", up to the first "&" or the end, without surrounding whitespace;
\* a URL not containing "watch?v=" but containing "youtu.be/" gives the text
\* after the last "youtu.be/", up to the first "?" or the end, without
\* surrounding whitespace; every other URL fails.
C8_ExtractVideoId ==
    call.op = "extract_video_id" =>
        IF Contains(call.url, WatchMarker)
        THEN /\ call.res.ok
             /\ IsStripOf(call.res.id,
                    UpTo(call.url, LastOccurrence(call.url, WatchMarker) + Len(WatchMarker), "&"))
        ELSE IF Contains(call.url, ShortMarker)
        THEN /\ call.res.ok
             /\ IsStripOf(call.res.id,
                    UpTo(call.url, LastOccurrence(call.url, ShortMarker) + Len(ShortMarker), "?"))
        ELSE ~call.res.ok

\* C8 witness: a URL holding both markers, resolved by the "watch?v=" rule.
C8_Witness ==
    /\ call.op = "extract_video_id"
    /\ call.url = ShortMarker \o WatchMarker \o <<"a", "b">>
    /\ call.res.ok
    /\ call.res.id = <<"a", "b">>

\* C8 (as stated). A URL containing "watch?v=" gives the id that follows it, up
\* to the first "&" or the end; a URL containing "youtu.be/" gives the id that
\* follows it, up to the first "?" or the end; every other URL fails.
C8_AsStated ==
    call.op = "extract_video_id" =>
        /\ Contains(call.url, WatchMarker) =>
             /\ call.res.ok
             /\ call.res.id =
                  UpTo(call.url, FirstOccurrence(call.url, WatchMarker) + Len(WatchMarker), "&")
        /\ Contains(call.url, ShortMarker) =>
             /\ call.res.ok
             /\ call.res.id =
                  UpTo(call.url, FirstOccurrence(call.url, ShortMarker) + Len(ShortMarker), "?")
        /\ (~Contains(call.url, WatchMarker) /\ ~Contains(call.url, ShortMarker)) => ~call.res.ok

\* the source sources[i] cannot be loaded: no loader takes it, or its loader raises
SourceFails(src_str, outcome) ==
    IF IsUrl(src_str) \/ HasLoader(StrLower(PathSuffix(src_str)))
    THEN outcome.raises
    ELSE TRUE

\* C2. load_documents is fail-fast: when a source of the list fails (no loader
\* for its extension, or its loader raises) the call raises and returns no
\* document, none of the sources before the failing one included.
C2_FailFast ==
    (/\ call.op = "load_documents"
     /\ \E i \in 1..Len(call.sources) : SourceFails(call.sources[i], call.outcomes[i]))
        => /\ call.err.kind # "none"
           /\ ~call.returned
           /\ call.result = <<>>

\* C2 witness: the first source was loaded, the second has no loader, and the
\* call raised without returning.
C2_Witness ==
    /\ call.op = "load_documents"
    /\ Len(call.sources) = 2
    /\ call.sources[2] = SourceBad
    /\ Len(call.invoked) = 1
    /\ ~call.outcomes[1].raises
    /\ call.err.kind # "none"
    /\ ~call.returned

\* C4. When load_documents raises the unsupported-source error, no loader has
\* been called in that call, and the error names the offending source.
C4_NoLoaderBeforeUnsupported ==
    (call.op = "load_documents" /\ call.err.kind = UnsupportedError(<<>>).kind)
        => /\ call.invoked = <<>>
           /\ \E i \in 1..Len(call.sources) :
                 /\ call.err.source = call.sources[i]
                 /\ ~IsUrl(call.sources[i])
                 /\ ~HasLoader(StrLower(PathSuffix(call.sources[i])))

\* C5. Constructing a DocumentProcessor or a VideoProcessor with
\* chunk_size <= 0 or chunk_overlap >= chunk_size fails at construction.
C5_InvalidConfigRejected ==
    (/\ call.op \in {"DocumentProcessor", "VideoProcessor"}
     /\ (call.chunk_size <= 0 \/ call.chunk_overlap >= call.chunk_size))
        => call.err # "none"

\* a chunk that is one token: no whitespace to split it at
IsSingleToken(content) == \A j \in 1..Len(content) : content[j] \notin Whitespace

\* C6. Chunk bound: every chunk split_documents / chunk_document produces is
\* non-empty and no longer than the configured chunk_size, unless it is a
\* single token.
C6_ChunkBound ==
    call.op \in {"split_documents", "chunk_document"}
        => \A i \in 1..Len(call.out) :
              /\ Len(call.out[i].page_content) >= 1
              /\ \/ Len(call.out[i].page_content) <= inst.chunk_size
                 \/ IsSingleToken(call.out[i].page_content)

\* C6 witness: a text longer than chunk_size was split with a positive overlap
\* into several chunks, one of them of the full chunk_size and holding whitespace.
C6_Witness ==
    /\ call.op = "split_documents"
    /\ inst.chunk_overlap > 0
    /\ inst.chunk_overlap < inst.chunk_size
    /\ Len(call.documents[1].page_content) > inst.chunk_size
    /\ Len(call.out) >= 2
    /\ \E i \in 1..Len(call.out) :
          /\ Len(call.out[i].page_content) = inst.chunk_size
          /\ ~IsSingleToken(call.out[i].page_content)

\* the metadata a chunk inherits: everything but the timestamp annotation
Inherited(metadata) == [metadata EXCEPT !.timestamp_start = NoTimestamp]

\* C7. Metadata propagation: every chunk process_sources or process_video
\* returns is a piece of the content of one text unit and carries that unit's
\* metadata unchanged; process_video's annotation adds timestamp_start only.
C7_MetadataPropagation ==
    call.op \in {"process_sources", "process_video"}
        => \A i \in 1..Len(call.out) :
              /\ \E u \in 1..Len(call.units) :
                    /\ Inherited(call.out[i].metadata) = call.units[u].metadata
                    /\ Contains(call.units[u].page_content, call.out[i].page_content)
              /\ call.op = "process_sources"
                    => call.out[i].metadata.timestamp_start = NoTimestamp

\* C7 witness: process_video returned a chunk annotated with a timestamp that
\* still carries the transcript's source and type.
C7_Witness ==
    /\ call.op = "process_video"
    /\ Len(call.out) >= 2
    /\ call.out[2].metadata.timestamp_start.set
    /\ call.out[2].metadata.source = call.url
    /\ call.out[2].metadata.type = "youtube_transcript"

\* s[i..j] is a marker "[<digits>.<digits>s]" whose dot is at index d
IsMarker(s, i, d, j) ==
    /\ 1 <= i /\ i + 1 < d /\ d + 1 < j - 1 /\ j <= Len(s)
    /\ s[i] = "[" /\ s[d] = "." /\ s[j - 1] = "s" /\ s[j] = "]"
    /\ \A h \in (i + 1)..(d - 1) : s[h] \in Digits
    /\ \A h \in (d + 1)..(j - 2) : s[h] \in Digits

MarkerStarts(s) == {i \in 1..Len(s) : \E d, j \in 1..Len(s) : IsMarker(s, i, d, j)}

\* the float of the first marker of s
FirstMarkerValue(s) ==
    LET i == CHOOSE m \in MarkerStarts(s) : \A n \in MarkerStarts(s) : m <= n
        dj == CHOOSE p \in (1..Len(s)) \X (1..Len(s)) : IsMarker(s, i, p[1], p[2])
    IN  Float(SubSeq(s, i + 1, dj[1] - 1), SubSeq(s, dj[1] + 1, dj[2] - 2))

\* the chunks occur in text one after the other: at offsets that never decrease
RECURSIVE InOrderFrom(_, _, _)
InOrderFrom(chunks, text, from) ==
    \/ chunks = <<>>
    \/ /\ chunks # <<>>
       /\ \E o \in from..Len(text) :
             /\ IsPrefixAt(Head(chunks).page_content, text, o)
             /\ InOrderFrom(Tail(chunks), text, o)

\* C9. Timestamp annotation: a chunk process_video returns whose content holds
\* a marker "[<float>s]" has timestamp_start set to the float of its first
\* marker, a chunk that holds none has no timestamp_start, and the chunks come
\* in transcript order.
C9_TimestampAnnotation ==
    (call.op = "process_video" /\ call.err = "none")
        => /\ \A i \in 1..Len(call.out) :
                 LET ch == call.out[i]
                 IN  IF MarkerStarts(ch.page_content) # {}
                     THEN ch.metadata.timestamp_start = FirstMarkerValue(ch.page_content)
                     ELSE ch.metadata.timestamp_start = NoTimestamp
           /\ InOrderFrom(call.out, call.units[1].page_content, 1)

\* C9 witness: a chunk that starts in the middle of a line and holds the next
\* line's marker, next to a chunk without any marker.
C9_Witness ==
    /\ call.op = "process_video"
    /\ call.err = "none"
    /\ \E i \in 1..Len(call.out) :
          /\ call.out[i].page_content[1] # "["
          /\ call.out[i].metadata.timestamp_start.set
    /\ \E i \in 1..Len(call.out) : ~call.out[i].metadata.timestamp_start.set

====
